---- MODULE Spec2Model ----
(***************************************************************************)
(* Model of src/executors/python-dspy-executor.py: one process invocation  *)
(* of main(), which reads one request, runs execute_dspy_program() and     *)
(* prints one JSON response.                                               *)
(*                                                                         *)
(* Python values are modelled as follows.  A dict is a TLA+ record (the    *)
(* empty dict is the function with empty domain).  Every other value is a  *)
(* record carrying a field "t" that names its Python type.  A list is a    *)
(* sequence.  Code supplied by the request (program source, metric source) *)
(* is opaque to the executor; it is modelled by what running it can do:    *)
(* return, raise an Exception, or raise a BaseException that is not an     *)
(* Exception (SystemExit, KeyboardInterrupt), which "except Exception"     *)
(* does not catch.                                                         *)
(***************************************************************************)
EXTENDS Integers, Sequences, FiniteSets, TLC

\* ------------------------------------------------------------------ bounds
\* Largest number of examples in a request.
MaxExamples == 2

\* ------------------------------------------------------------ Python values
EmptyDict == [k \in {} |-> 0]
NoneValue == [t |-> "none"]
Num(n) == [t |-> "num", n |-> n]
Text(s) == [t |-> "str", s |-> s]
\* an object json.dumps cannot serialize
Opaque == [t |-> "object"]
\* str(v): the display string of a value
Str(v) == [t |-> "str", of |-> v]
IsDict(v) == "t" \notin DOMAIN v
IsNumber(v) == ("t" \in DOMAIN v) /\ v.t \in {"num", "float"}

\* ------------------------------------------------------------- the request
\* Values carried by the single input field x of an example.
Payloads == {1, 2}
\* {"inputs": {"x": v}, "answer": v}
Wrapped(v) == [inputs |-> [x |-> v], answer |-> v]
\* {"x": v}
Flat(v) == [x |-> v]
\* an element of the examples list that is not a mapping (a JSON number)
Scalar == [t |-> "num", n |-> 7]
ExampleValues == {Wrapped(v) : v \in Payloads} \cup {Flat(v) : v \in Payloads} \cup {Scalar}

\* What executing programCode does (lines 32-33, 36, 43).
ProgramCodes == {"syntax_error", "raises", "exits", "no_program", "wrong_type", "module"}
\* What metricFnCode is and what executing it does (lines 54-57, 80-85);
\* "absent" is a missing key, None or the empty string.
MetricCodes == {"absent", "raises", "exits", "no_metric_fn", "bare", "structured",
                "structured_no_feedback", "not_a_number", "feedback_object"}
\* taskLmConfig: one dspy.LM accepts, one it rejects (lines 23-28).
LmConfigs == {"ok", "bad"}
\* Exit statuses a BaseException raised by request code can give the process:
\* sys.exit() or sys.exit(0), and sys.exit(2) or an uncaught KeyboardInterrupt.
ExitCodes == {0, 2}

ExampleLists == UNION {[1..n -> ExampleValues] : n \in 0..MaxExamples}
Requests == [programCode : ProgramCodes, examples : ExampleLists,
             taskLmConfig : LmConfigs, metricFnCode : MetricCodes]
NoRequest == [programCode |-> "module", examples |-> <<>>,
              taskLmConfig |-> "ok", metricFnCode |-> "absent"]

\* ---------------------------------------------------------------- responses
\* lines 38-41, 44-47: a Failure envelope without traceback
FailureBare(msg) == [success |-> FALSE, error |-> msg]
\* lines 125-129, 149-153: a Failure envelope with traceback
FailureTb(msg) == [success |-> FALSE, error |-> msg, traceback |-> "format_exc"]
NoResult == [t |-> "none"]
MissingProgramMsg == "No 'program' object defined in code"
WrongTypeMsg == "'program' is <class 'int'>, not dspy.Module"

VARIABLES
    pc,            \* the statement main()/execute_dspy_program() is about to run
    input_data,    \* the parsed request (main, line 135)
    lm,            \* line 23: TRUE once dspy.LM(...) has returned
    program,       \* line 36: "unset", "None", "int" or "Module"
    lm_attached,   \* number of program.set_lm(lm) calls made (line 50)
    metric_fn,     \* line 53/57: "None" or the kind of callable bound
    results, scores, traces,  \* lines 60-62
    i,             \* number of examples the for statement has taken (line 64)
    dspy_example,  \* line 67
    prediction,    \* line 71
    trace,         \* line 74
    score, feedback,  \* lines 77-85
    settings_trace,   \* dspy.settings.trace, the ambient accumulator
    scope_open,    \* number of dspy.settings.context scopes entered and not left
    result,        \* return value of execute_dspy_program (line 138)
    stdout,        \* sequence of JSON documents printed
    exit_code,     \* exit status of the process, meaningful when pc = "done"
    history,       \* per example taken by the loop: what happened to it
    aggregated,    \* TRUE once line 116 has been reached
    exec_count     \* how often exec() ran the program source (line 33) and the
                   \* metric source (line 56)

loadVars == <<lm, program, lm_attached, metric_fn, exec_count>>
listVars == <<results, scores, traces>>
exampleVars == <<dspy_example, prediction, trace, score, feedback>>
scopeVars == <<settings_trace, scope_open>>
outVars == <<result, stdout, exit_code>>
loopVars == <<i, history, aggregated>>
vars == <<pc, input_data, loadVars, listVars, exampleVars, scopeVars, outVars, loopVars>>

Init ==
    /\ pc = "read"
    /\ input_data = NoRequest
    /\ lm = FALSE
    /\ program = "unset"
    /\ lm_attached = 0
    /\ metric_fn = "None"
    /\ results = <<>> /\ scores = <<>> /\ traces = <<>>
    /\ i = 0
    /\ dspy_example = NoneValue
    /\ prediction = NoneValue
    /\ trace = <<>>
    /\ score = Num(0)
    /\ feedback = NoneValue
    /\ settings_trace = <<>>
    /\ scope_open = 0
    /\ result = NoResult
    /\ stdout = <<>>
    /\ exit_code = 0
    /\ history = <<>>
    /\ aggregated = FALSE
    /\ exec_count = [program |-> 0, metric |-> 0]

\* --------------------------------------------------------- exception paths
\* lines 148-154: main's handler prints a Failure envelope and exits 1.
MainExcept(msg) ==
    /\ stdout' = Append(stdout, [json |-> FailureTb(msg)])
    /\ exit_code' = 1
    /\ pc' = "done"

\* lines 124-129: the outer handler of execute_dspy_program returns a
\* Failure envelope to main.
OuterExcept(msg) ==
    /\ result' = FailureTb(msg)
    /\ pc' = "print"

\* A BaseException that is not an Exception passes "except Exception" at
\* lines 107, 124 and 148: the interpreter ends the process with the status
\* the exception carries; nothing is printed.
Uncaught(code) ==
    /\ exit_code' = code
    /\ pc' = "done"

\* ------------------------------------------------------------------- main
\* line 135, json.loads fails on malformed JSON.
ReadMalformed ==
    /\ pc = "read"
    /\ MainExcept("JSONDecodeError")
    /\ UNCHANGED <<input_data, loadVars, listVars, exampleVars, scopeVars, result, loopVars>>

\* lines 139-141, a required key is missing: KeyError before the call.
ReadMissingField ==
    /\ pc = "read"
    /\ MainExcept("KeyError")
    /\ UNCHANGED <<input_data, loadVars, listVars, exampleVars, scopeVars, result, loopVars>>

\* lines 135-143, the request parses and execute_dspy_program is called.
ReadRequest ==
    /\ pc = "read"
    /\ \E req \in Requests : input_data' = req
    /\ pc' = "lm"
    /\ UNCHANGED <<loadVars, listVars, exampleVars, scopeVars, outVars, loopVars>>

\* ------------------------------------------------- execute_dspy_program: load
\* lines 23-28
BuildLM ==
    /\ pc = "lm"
    /\ IF input_data.taskLmConfig = "ok"
         THEN /\ lm' = TRUE
              /\ pc' = "compile"
              /\ UNCHANGED result
         ELSE /\ OuterExcept("LMError")
              /\ UNCHANGED lm
    /\ UNCHANGED <<input_data, program, lm_attached, metric_fn, exec_count, listVars,
                   exampleVars, scopeVars, stdout, exit_code, loopVars>>

\* line 32
CompileProgram ==
    /\ pc = "compile"
    /\ IF input_data.programCode = "syntax_error"
         THEN OuterExcept("SyntaxError")
         ELSE pc' = "exec" /\ UNCHANGED result
    /\ UNCHANGED <<input_data, loadVars, listVars, exampleVars, scopeVars, stdout,
                   exit_code, loopVars>>

\* context.get("program") after the source ran to its end (line 36)
Binding(code) ==
    CASE code = "no_program" -> "None"
      [] code = "wrong_type" -> "int"
      [] OTHER -> "Module"

\* lines 33-36
ExecProgram ==
    /\ pc = "exec"
    /\ CASE input_data.programCode = "raises" ->
              /\ OuterExcept("ProgramError")
              /\ UNCHANGED <<program, exit_code>>
         [] input_data.programCode = "exits" ->
              /\ \E code \in ExitCodes : Uncaught(code)
              /\ UNCHANGED <<program, result>>
         [] OTHER ->
              /\ program' = Binding(input_data.programCode)
              /\ pc' = "check"
              /\ UNCHANGED <<result, exit_code>>
    /\ exec_count' = [exec_count EXCEPT !.program = @ + 1]
    /\ UNCHANGED <<input_data, lm, lm_attached, metric_fn, listVars, exampleVars,
                   scopeVars, stdout, loopVars>>

\* the entry-point checks without the test for a missing binding
CheckProgramTypeOnly ==
    /\ pc = "check"
    /\ IF program # "Module"
         THEN result' = FailureBare(WrongTypeMsg) /\ pc' = "print"
         ELSE pc' = "set_lm" /\ UNCHANGED result
    /\ UNCHANGED <<input_data, loadVars, listVars, exampleVars, scopeVars, stdout,
                   exit_code, loopVars>>

\* the entry-point checks without the isinstance test
CheckProgramLenient ==
    /\ pc = "check"
    /\ IF program = "None"
         THEN result' = FailureBare(MissingProgramMsg) /\ pc' = "print"
         ELSE pc' = "set_lm" /\ UNCHANGED result
    /\ UNCHANGED <<input_data, loadVars, listVars, exampleVars, scopeVars, stdout,
                   exit_code, loopVars>>

\* lines 37-47: the entry-point checks
CheckProgram ==
    /\ pc = "check"
    /\ CASE program = "None" ->
              result' = FailureBare(MissingProgramMsg) /\ pc' = "print"
         [] program # "None" /\ program # "Module" ->
              result' = FailureBare(WrongTypeMsg) /\ pc' = "print"
         [] OTHER ->
              pc' = "set_lm" /\ UNCHANGED result
    /\ UNCHANGED <<input_data, loadVars, listVars, exampleVars, scopeVars, stdout,
                   exit_code, loopVars>>

\* line 50
SetLM ==
    /\ pc = "set_lm"
    /\ lm_attached' = lm_attached + 1
    /\ pc' = "metric"
    /\ UNCHANGED <<input_data, lm, program, metric_fn, exec_count, listVars, exampleVars,
                   scopeVars, outVars, loopVars>>

\* metric_context.get("metric_fn") after the metric source ran (line 57)
MetricBinding(code) == IF code = "no_metric_fn" THEN "None" ELSE code

\* the metric loader treating a missing metric_fn binding as a load failure
LoadMetricStrict ==
    /\ pc = "metric"
    /\ CASE input_data.metricFnCode = "absent" ->
              /\ metric_fn' = "None"
              /\ results' = <<>> /\ scores' = <<>> /\ traces' = <<>>
              /\ pc' = "for"
              /\ UNCHANGED <<result, exit_code>>
         [] input_data.metricFnCode = "no_metric_fn" ->
              /\ OuterExcept("No 'metric_fn' defined in code")
              /\ UNCHANGED <<metric_fn, listVars, exit_code>>
         [] input_data.metricFnCode = "raises" ->
              /\ OuterExcept("MetricSourceError")
              /\ UNCHANGED <<metric_fn, listVars, exit_code>>
         [] input_data.metricFnCode = "exits" ->
              /\ \E code \in ExitCodes : Uncaught(code)
              /\ UNCHANGED <<metric_fn, listVars, result>>
         [] OTHER ->
              /\ metric_fn' = MetricBinding(input_data.metricFnCode)
              /\ results' = <<>> /\ scores' = <<>> /\ traces' = <<>>
              /\ pc' = "for"
              /\ UNCHANGED <<result, exit_code>>
    /\ exec_count' = IF input_data.metricFnCode = "absent" THEN exec_count
                     ELSE [exec_count EXCEPT !.metric = @ + 1]
    /\ UNCHANGED <<input_data, lm, program, lm_attached, exampleVars, scopeVars,
                   stdout, loopVars>>

\* lines 53-62
LoadMetric ==
    /\ pc = "metric"
    /\ CASE input_data.metricFnCode = "absent" ->
              /\ metric_fn' = "None"
              /\ results' = <<>> /\ scores' = <<>> /\ traces' = <<>>
              /\ pc' = "for"
              /\ UNCHANGED <<result, exit_code>>
         [] input_data.metricFnCode = "raises" ->
              /\ OuterExcept("MetricSourceError")
              /\ UNCHANGED <<metric_fn, listVars, exit_code>>
         [] input_data.metricFnCode = "exits" ->
              /\ \E code \in ExitCodes : Uncaught(code)
              /\ UNCHANGED <<metric_fn, listVars, result>>
         [] OTHER ->
              /\ metric_fn' = MetricBinding(input_data.metricFnCode)
              /\ results' = <<>> /\ scores' = <<>> /\ traces' = <<>>
              /\ pc' = "for"
              /\ UNCHANGED <<result, exit_code>>
    /\ exec_count' = IF input_data.metricFnCode = "absent" THEN exec_count
                     ELSE [exec_count EXCEPT !.metric = @ + 1]
    /\ UNCHANGED <<input_data, lm, program, lm_attached, exampleVars, scopeVars,
                   stdout, loopVars>>

\* ------------------------------------------- execute_dspy_program: the loop
\* the whole example taken as the inputs, whatever its fields
GetInputsWhole(example) == example
\* example.get('inputs', example), line 67
GetInputs(example) == IF "inputs" \in DOMAIN example THEN example.inputs ELSE example

\* dspy.Example(**kwargs): an Example holding the given fields
MakeExample(kwargs) == [t |-> "Example", store |-> kwargs]

\* program(**kwargs) of the module the request defines: it echoes its single
\* input field x as output field y.
Forward(kwargs) == [t |-> "Prediction", store |-> [y |-> kwargs.x]]

\* One record the Trace Recorder accumulates for a sub-invocation.
FullRecord(kwargs) == <<"Predict", kwargs, Forward(kwargs)>>
ShortRecord == <<"Predict">>
NoOutputRecord(kwargs) == <<"Predict", kwargs, NoneValue>>
\* a record whose second component is not a mapping
BrokenRecord == <<"Predict", Num(0), NoneValue>>
\* The sequences of records one call of the program may leave in the accumulator.
TraceOptions(kwargs) ==
    { <<>>,
      <<ShortRecord, FullRecord(kwargs)>>,
      <<NoOutputRecord(kwargs)>>,
      <<BrokenRecord>> }

\* What a call of the program that returns can do: leave records in the
\* accumulator and return a prediction, or return a value that is no mapping.
CallOutcomes(kwargs) ==
    {[emitted |-> t, returns |-> Forward(kwargs)] : t \in TraceOptions(kwargs)}
      \cup {[emitted |-> <<>>, returns |-> Num(kwargs.x)]}

\* The entry history holds for an example the for statement has just taken.
Fresh == [fault |-> "none", called |-> 0, scored |-> 0, emitted |-> <<>>]

\* lines 87-91
SuccessResult(pred, sc, fb) == [outputs |-> pred.store, score |-> sc, feedback |-> fb]
\* the handler records the score computed before the exception
ErrorResultStale(msg) == [outputs |-> EmptyDict, score |-> score, error |-> msg]
\* lines 108-112
ErrorResult(msg) == [outputs |-> EmptyDict, score |-> Num(0), error |-> msg]

\* the scope left open, as an override set without a with block would be
LeaveScopeSkipped == UNCHANGED <<scope_open, settings_trace>>
\* leaving the "with dspy.settings.context(trace=[])" block (line 70), on its
\* normal end or by an exception: the setting the block overrode is restored.
LeaveScope ==
    /\ scope_open' = IF scope_open > 0 THEN scope_open - 1 ELSE 0
    /\ settings_trace' = <<>>

\* lines 107-114: the handler of one example
ExampleExcept(msg) ==
    /\ results' = Append(results, ErrorResult(msg))
    /\ scores' = Append(scores, Num(0))
    /\ traces' = Append(traces, <<>>)
    /\ pc' = "for"

\* line 64: the for statement takes the next example, or the loop ends.
ForNext ==
    /\ pc = "for"
    /\ IF i < Len(input_data.examples)
         THEN /\ i' = i + 1
              /\ history' = Append(history, Fresh)
              /\ pc' = "example"
         ELSE /\ pc' = "return"
              /\ UNCHANGED <<i, history>>
    /\ UNCHANGED <<input_data, loadVars, listVars, exampleVars, scopeVars, outVars,
                   aggregated>>

\* line 67
BuildExample ==
    /\ pc = "example"
    /\ LET example == input_data.examples[i] IN
       IF IsDict(example)
         THEN /\ dspy_example' = MakeExample(GetInputs(example))
              /\ pc' = "enter"
              /\ UNCHANGED <<listVars, history>>
         ELSE /\ ExampleExcept("AttributeError")
              /\ history' = [history EXCEPT ![i].fault = "example"]
              /\ UNCHANGED dspy_example
    /\ UNCHANGED <<input_data, loadVars, prediction, trace, score, feedback, scopeVars,
                   outVars, i, aggregated>>

\* the scope opened on the list the previous example captured (one list
\* made before the loop) instead of a new list
EnterScopeReuse ==
    /\ pc = "enter"
    /\ scope_open' = scope_open + 1
    /\ settings_trace' = trace
    /\ pc' = "call"
    /\ UNCHANGED <<input_data, loadVars, listVars, exampleVars, outVars, loopVars>>

\* line 70: the with statement opens a scope whose accumulator is a new list.
EnterScope ==
    /\ pc = "enter"
    /\ scope_open' = scope_open + 1
    /\ settings_trace' = <<>>
    /\ pc' = "call"
    /\ UNCHANGED <<input_data, loadVars, listVars, exampleVars, outVars, loopVars>>

\* lines 71-74: the program returns a prediction; trace is the accumulator.
CallReturns ==
    /\ pc = "call"
    /\ LET kwargs == dspy_example.store IN
       /\ "x" \in DOMAIN kwargs
       /\ \E out \in CallOutcomes(kwargs) :
            /\ settings_trace' = settings_trace \o out.emitted
            /\ trace' = settings_trace'
            /\ prediction' = out.returns
            /\ history' = [history EXCEPT ![i].called = @ + 1,
                                          ![i].emitted = out.emitted]
    /\ pc' = "score"
    /\ UNCHANGED <<input_data, loadVars, listVars, dspy_example, score, feedback,
                   scope_open, outVars, i, aggregated>>

\* line 71: the program raises an Exception after one sub-invocation was
\* recorded, or the call itself is rejected (a missing argument).
CallRaises ==
    /\ pc = "call"
    /\ LET kwargs == dspy_example.store IN
       IF "x" \in DOMAIN kwargs
         THEN /\ ExampleExcept("ProgramError")
              /\ history' = [history EXCEPT ![i].fault = "call", ![i].called = @ + 1,
                                            ![i].emitted = <<FullRecord(kwargs)>>]
         ELSE /\ ExampleExcept("TypeError")
              /\ history' = [history EXCEPT ![i].fault = "call"]
    /\ LeaveScope
    /\ UNCHANGED <<input_data, loadVars, exampleVars, outVars, i, aggregated>>

\* line 71: the program raises SystemExit or KeyboardInterrupt.
CallExits ==
    /\ pc = "call"
    /\ "x" \in DOMAIN dspy_example.store
    /\ \E code \in ExitCodes : Uncaught(code)
    /\ history' = [history EXCEPT ![i].fault = "exit", ![i].called = @ + 1]
    /\ LeaveScope
    /\ UNCHANGED <<input_data, loadVars, listVars, exampleVars, result, stdout, i,
                   aggregated>>

\* metric_fn(dspy_example, prediction) of the callable the request defines
MetricReturn(kind, example) ==
    LET v == Num(example.store.x) IN
    CASE kind = "bare" -> v
      [] kind = "not_a_number" -> Text("high")
      [] kind = "structured" -> [t |-> "object", score |-> v, feedback |-> Text("ok")]
      [] kind = "structured_no_feedback" -> [t |-> "object", score |-> v]
      [] kind = "feedback_object" -> [t |-> "object", score |-> v, feedback |-> Opaque]

\* the score taken as returned, without looking for a score attribute
NormScoreRaw(metric_result) == metric_result
\* lines 81-85: hasattr(metric_result, 'score') and getattr(.., 'feedback', None)
NormScore(metric_result) ==
    IF "score" \in DOMAIN metric_result THEN metric_result.score ELSE metric_result
NormFeedback(metric_result) ==
    IF "score" \in DOMAIN metric_result /\ "feedback" \in DOMAIN metric_result
      THEN metric_result.feedback ELSE NoneValue

\* lines 77-85
ScoreExample ==
    /\ pc = "score"
    /\ IF metric_fn = "None"
         THEN /\ score' = Num(0)
              /\ feedback' = NoneValue
              /\ UNCHANGED history
         ELSE LET metric_result == MetricReturn(metric_fn, dspy_example) IN
              /\ score' = NormScore(metric_result)
              /\ feedback' = NormFeedback(metric_result)
              /\ history' = [history EXCEPT ![i].scored = @ + 1]
    /\ pc' = "append"
    /\ UNCHANGED <<input_data, loadVars, listVars, dspy_example, prediction, trace,
                   scopeVars, outVars, i, aggregated>>

\* line 80: the metric callable raises an Exception.
MetricRaises ==
    /\ pc = "score"
    /\ metric_fn # "None"
    /\ ExampleExcept("MetricError")
    /\ history' = [history EXCEPT ![i].fault = "metric", ![i].scored = @ + 1]
    /\ LeaveScope
    /\ UNCHANGED <<input_data, loadVars, exampleVars, outVars, i, aggregated>>

\* line 80: the metric callable raises SystemExit or KeyboardInterrupt.
MetricExits ==
    /\ pc = "score"
    /\ metric_fn # "None"
    /\ \E code \in ExitCodes : Uncaught(code)
    /\ history' = [history EXCEPT ![i].fault = "exit", ![i].scored = @ + 1]
    /\ LeaveScope
    /\ UNCHANGED <<input_data, loadVars, listVars, exampleVars, result, stdout, i,
                   aggregated>>

\* lines 87-93; dict(prediction) raises when the program returned no mapping.
AppendResult ==
    /\ pc = "append"
    /\ IF prediction.t = "Prediction"
         THEN /\ results' = Append(results, SuccessResult(prediction, score, feedback))
              /\ scores' = Append(scores, score)
              /\ pc' = "format"
              /\ UNCHANGED <<traces, history, scopeVars>>
         ELSE /\ ExampleExcept("TypeError")
              /\ history' = [history EXCEPT ![i].fault = "outputs"]
              /\ LeaveScope
    /\ UNCHANGED <<input_data, loadVars, exampleVars, outVars, i, aggregated>>

\* lines 98-104: the entry made from one record of at least three components
StrValues(d) == [k \in DOMAIN d |-> Str(d[k])]
TraceEntry(t) ==
    [module |-> Str(t[1]),
     inputs |-> StrValues(t[2]),
     outputs |-> IF t[3] = NoneValue THEN EmptyDict ELSE StrValues(t[3].store)]
\* inputs.items() at line 102 raises on this record
Unformattable(t) == Len(t) >= 3 /\ ~IsDict(t[2])
\* the length test written as len(t) > 3
RECURSIVE FormatTraceStrict(_)
FormatTraceStrict(tr) ==
    IF tr = <<>> THEN <<>>
    ELSE IF Len(Head(tr)) > 3
           THEN <<TraceEntry(Head(tr))>> \o FormatTraceStrict(Tail(tr))
           ELSE FormatTraceStrict(Tail(tr))
\* lines 96-104
RECURSIVE FormatTrace(_)
FormatTrace(tr) ==
    IF tr = <<>> THEN <<>>
    ELSE IF Len(Head(tr)) >= 3
           THEN <<TraceEntry(Head(tr))>> \o FormatTrace(Tail(tr))
           ELSE FormatTrace(Tail(tr))

\* lines 96-105, then the with block ends
AppendTrace ==
    /\ pc = "format"
    /\ IF \E k \in 1..Len(trace) : Unformattable(trace[k])
         THEN /\ ExampleExcept("AttributeError")
              /\ history' = [history EXCEPT ![i].fault = "format"]
         ELSE /\ traces' = Append(traces, FormatTrace(trace))
              /\ pc' = "for"
              /\ UNCHANGED <<results, scores, history>>
    /\ LeaveScope
    /\ UNCHANGED <<input_data, loadVars, exampleVars, outVars, i, aggregated>>

\* ------------------------------------------------------------- aggregation
RECURSIVE SumNums(_)
SumNums(s) == IF s = <<>> THEN 0 ELSE Head(s).n + SumNums(Tail(s))
\* sum(scores) raises TypeError unless every score is a number
Summable(s) == \A k \in 1..Len(s) : IsNumber(s[k])
\* the mean without the guard for an empty list
AverageUnguarded(s) == [t |-> "float", num |-> SumNums(s), den |-> Len(s)]
\* line 121: sum(scores) / len(scores) if scores else 0
AverageScore(s) ==
    IF s # <<>> THEN [t |-> "float", num |-> SumNums(s), den |-> Len(s)] ELSE Num(0)

\* lines 116-122
Return ==
    /\ pc = "return"
    /\ aggregated' = TRUE
    /\ IF Summable(scores)
         THEN /\ result' = [success |-> TRUE, results |-> results, scores |-> scores,
                            traces |-> traces, average_score |-> AverageScore(scores)]
              /\ pc' = "print"
         ELSE OuterExcept("TypeError")
    /\ UNCHANGED <<input_data, loadVars, listVars, exampleVars, scopeVars, stdout,
                   exit_code, i, history>>

\* ---------------------------------------------------------------- main: output
\* json.dumps(result) raises TypeError on a value that has no JSON form.
Serializable(r) ==
    r.success = TRUE =>
        \A k \in 1..Len(r.results) :
            "feedback" \in DOMAIN r.results[k] => r.results[k].feedback # Opaque
\* the JSON document json.dumps writes for a value
Dumps(r) == [json |-> r]

\* lines 146-154
PrintResult ==
    /\ pc = "print"
    /\ IF Serializable(result)
         THEN /\ stdout' = Append(stdout, Dumps(result))
              /\ pc' = "done"
              /\ UNCHANGED exit_code
         ELSE MainExcept("TypeError")
    /\ UNCHANGED <<input_data, loadVars, listVars, exampleVars, scopeVars, result, loopVars>>

Next == ReadMalformed \/ ReadMissingField \/ ReadRequest \/ BuildLM \/ CompileProgram
        \/ ExecProgram \/ CheckProgram \/ SetLM \/ LoadMetric
        \/ ForNext \/ BuildExample \/ EnterScope \/ CallReturns \/ CallRaises \/ CallExits
        \/ ScoreExample \/ MetricRaises \/ MetricExits \/ AppendResult \/ AppendTrace
        \/ Return \/ PrintResult

Spec == Init /\ [][Next]_vars

\* ------------------------------------------------------------------ claims
N == Len(input_data.examples)
IsReport(r) == "results" \in DOMAIN r
IsFailure(r) == "error" \in DOMAIN r /\ "results" \notin DOMAIN r /\ r.success = FALSE
\* the documents printed so far
Emitted == {stdout[k].json : k \in 1..Len(stdout)}
\* every report execute_dspy_program has returned or main has printed
Reports == {r \in ({result} \cup Emitted) : IsReport(r)}
\* both loaders have finished without failing
Loaded == pc \in {"for", "example", "enter", "call", "score", "append", "format", "return"}
          \/ aggregated \/ history # <<>>
HasError(r) == "error" \in DOMAIN r

\* what example ex contributes when nothing raises while it is processed
ExpectedScore(ex) ==
    IF metric_fn = "None" THEN Num(0)
    ELSE NormScore(MetricReturn(metric_fn, MakeExample(GetInputs(ex))))
ExpectedFeedback(ex) ==
    IF metric_fn = "None" THEN NoneValue
    ELSE NormFeedback(MetricReturn(metric_fn, MakeExample(GetInputs(ex))))
ExpectedResult(ex) ==
    SuccessResult(Forward(GetInputs(ex)), ExpectedScore(ex), ExpectedFeedback(ex))

\* C1: every report returned for a request with N examples has exactly N
\* results, N scores and N traces, whatever happened to each example.
C1_ReportLengths ==
    \A r \in Reports :
        Len(r.results) = N /\ Len(r.scores) = N /\ Len(r.traces) = N

\* C2: when exactly one example f raised, the report has the error result,
\* score 0 and the empty trace at index f and nowhere else, and every other
\* example j has at index j the result, score and trace of its own success.
C2_Isolation ==
    \A r \in Reports : \A f \in 1..N :
        (/\ history[f].fault # "none"
         /\ \A j \in (1..N) \ {f} : history[j].fault = "none")
        => /\ HasError(r.results[f])
           /\ r.results[f].outputs = EmptyDict
           /\ r.results[f].score = Num(0)
           /\ r.scores[f] = Num(0)
           /\ r.traces[f] = <<>>
           /\ \A k \in 1..Len(r.results) : HasError(r.results[k]) => k = f
           /\ \A j \in (1..N) \ {f} :
                /\ r.results[j] = ExpectedResult(input_data.examples[j])
                /\ r.scores[j] = ExpectedScore(input_data.examples[j])
                /\ r.traces[j] = FormatTrace(history[j].emitted)

\* C3: after every iteration of the loop the three lists are in lockstep:
\* entry k of each describes example k, and scores[k] is results[k].score.
C3_Lockstep ==
    pc = "for" =>
        /\ Len(results) = i /\ Len(scores) = i /\ Len(traces) = i
        /\ \A k \in 1..i :
             /\ scores[k] = results[k].score
             /\ HasError(results[k]) <=> history[k].fault # "none"
             /\ HasError(results[k]) => traces[k] = <<>>
             /\ ~HasError(results[k]) =>
                  /\ results[k].outputs = Forward(GetInputs(input_data.examples[k])).store
                  /\ traces[k] = FormatTrace(history[k].emitted)

\* C4: a result that carries an error has empty outputs and score 0, and the
\* entry of scores at its index is 0; in the lists being built and in every report.
ErrorShape(rs, ss) ==
    \A k \in 1..Len(rs) :
        HasError(rs[k]) => /\ rs[k].outputs = EmptyDict
                           /\ rs[k].score = Num(0)
                           /\ k <= Len(ss) /\ ss[k] = Num(0)
C4_ErrorResultShape ==
    /\ ErrorShape(results, scores)
    /\ \A r \in Reports : ErrorShape(r.results, r.scores)
C4_Witness ==
    /\ pc = "done"
    /\ \E r \in Emitted : IsReport(r) /\ \E k \in 1..Len(r.results) : HasError(r.results[k])

\* C5: once both loaders succeeded, every response returned or printed is a
\* report with success = TRUE, whatever the examples and the metric did.
C5_LoadedMeansReport ==
    Loaded => \A r \in ({result} \cup Emitted) \ {NoResult} :
                  IsReport(r) /\ r.success = TRUE

\* C6: in every report average_score is the sum of scores divided by their
\* number, and is 0 when there are no scores; a request with no examples
\* whose load succeeded yields a report.
MeanOf(avg, ss) ==
    IF ss = <<>> THEN avg = Num(0)
    ELSE /\ avg.t = "float"
         /\ avg.den > 0
         /\ avg.num * Len(ss) = SumNums(ss) * avg.den
C6_AverageIsMean ==
    /\ \A r \in Reports : MeanOf(r.average_score, r.scores)
    /\ (Loaded /\ N = 0 /\ result # NoResult) =>
           IsReport(result) /\ result.scores = <<>> /\ result.average_score = Num(0)
C6_Witness ==
    /\ pc = "done"
    /\ \E r \in Emitted : /\ IsReport(r) /\ Len(r.scores) = 2
                          /\ SumNums(r.scores) = 3

\* C7: after a successful load the loop takes the examples in input order,
\* each once, and the process does not end before the aggregator has run:
\* no exception raised while an example is processed leaves the loop.
C7_LoopReachesAggregator ==
    /\ Len(history) = i /\ i <= N
    /\ \A k \in 1..Len(history) : history[k].called <= 1
    /\ (Loaded /\ pc = "done") => aggregated /\ i = N

\* C8: when the program source ran and bound no "program", the response is
\* the Failure envelope naming the missing entry point, whatever the
\* examples are, and no example is taken by the loop or invoked.
C8_MissingEntryPoint ==
    program = "None" =>
        /\ i = 0 /\ history = <<>> /\ ~aggregated
        /\ result \in {NoResult, FailureBare(MissingProgramMsg)}
        /\ pc \in {"print", "done"} => result = FailureBare(MissingProgramMsg)
        /\ pc = "done" => stdout = <<Dumps(FailureBare(MissingProgramMsg))>>
C8_Witness ==
    /\ pc = "done" /\ program = "None" /\ N = 2
    /\ stdout = <<Dumps(FailureBare(MissingProgramMsg))>>

\* C9: when a load-level step fails, no example is invoked, the aggregator
\* does not run, the response is one Failure envelope with an error string
\* and without results, scores and traces, and the process exits with 0.
LoadStepFails ==
    /\ pc # "read"
    /\ \/ input_data.taskLmConfig = "bad"
       \/ input_data.programCode \in {"syntax_error", "raises", "exits", "wrong_type"}
       \/ input_data.metricFnCode \in {"raises", "exits"}
C9_LoadFailure ==
    LoadStepFails =>
        /\ history = <<>> /\ ~aggregated
        /\ pc = "done" =>
             /\ exit_code = 0
             /\ Len(stdout) = 1
             /\ IsFailure(stdout[1].json)
             /\ {"results", "scores", "traces"} \cap DOMAIN stdout[1].json = {}

\* C10: the process exits with 0 when the response of the evaluation was
\* printed; it exits with another status only when the request could not be
\* read or an error kept the response from being printed, and then one
\* Failure envelope has been printed.
C10_ExitContract ==
    pc = "done" =>
        /\ (result # NoResult /\ stdout = <<Dumps(result)>>) => exit_code = 0
        /\ exit_code # 0 => /\ Len(stdout) = 1
                            /\ IsFailure(stdout[1].json)
                            /\ result = NoResult \/ stdout # <<Dumps(result)>>

\* C11: on every path the process has printed exactly one response when it
\* ends: never none, never two.
C11_ExactlyOneResponse ==
    /\ Len(stdout) <= 1
    /\ pc = "done" => Len(stdout) = 1

\* C12: a result recorded for an example whose processing did not raise
\* carries the score attribute of what the metric returned, and its feedback
\* attribute (None when it has none), when the returned value has a score
\* attribute; otherwise it carries the returned value itself and feedback None.
NormalizedAs(r) ==
    LET v == Num(r.outputs.y) IN
    CASE metric_fn = "bare" -> r.score = v /\ r.feedback = NoneValue
      [] metric_fn = "not_a_number" -> r.score = Text("high") /\ r.feedback = NoneValue
      [] metric_fn = "structured" -> r.score = v /\ r.feedback = Text("ok")
      [] metric_fn = "structured_no_feedback" -> r.score = v /\ r.feedback = NoneValue
      [] metric_fn = "feedback_object" -> r.score = v /\ r.feedback = Opaque
      [] OTHER -> TRUE
C12_MetricNormalization ==
    /\ \A k \in 1..Len(results) : ~HasError(results[k]) => NormalizedAs(results[k])
    /\ \A r \in Reports : \A k \in 1..Len(r.results) :
           ~HasError(r.results[k]) => NormalizedAs(r.results[k])
C12_Witness ==
    /\ pc = "done" /\ metric_fn = "structured"
    /\ \E r \in Emitted :
         /\ IsReport(r) /\ Len(r.results) = 2
         /\ r.results[1].score = Num(2) /\ r.results[1].feedback = Text("ok")
         /\ HasError(r.results[2])

\* C13: when the metric source is absent or binds no metric_fn, the load
\* succeeds without a metric: every result has score 0 and no feedback, every
\* score is 0, the response is a report and its average_score is 0.
NoMetricRequest == pc # "read" /\ input_data.metricFnCode \in {"absent", "no_metric_fn"}
ZeroScores(rs, ss) ==
    /\ \A k \in 1..Len(rs) :
         /\ rs[k].score = Num(0)
         /\ "feedback" \in DOMAIN rs[k] => rs[k].feedback = NoneValue
    /\ \A k \in 1..Len(ss) : ss[k] = Num(0)
IsZero(avg) == avg = Num(0) \/ (avg.t = "float" /\ avg.num = 0 /\ avg.den > 0)
C13_NoMetric ==
    NoMetricRequest =>
        /\ metric_fn = "None"
        /\ (lm_attached = 1 /\ pc \notin {"metric"}) => Loaded
        /\ ZeroScores(results, scores)
        /\ \A k \in 1..Len(history) : history[k].scored = 0
        /\ (Loaded /\ result # NoResult) => IsReport(result) /\ result.success = TRUE
        /\ \A r \in Reports : ZeroScores(r.results, r.scores) /\ IsZero(r.average_score)
C13_Witness ==
    /\ pc = "done" /\ input_data.metricFnCode = "no_metric_fn"
    /\ \E r \in Emitted :
         /\ IsReport(r) /\ Len(r.results) = 2
         /\ ~HasError(r.results[1]) /\ HasError(r.results[2])

\* C14: the trace stored for example k holds only entries made from records
\* emitted during example k's own call of the program, and is the empty
\* list, not a missing entry, when that call emitted nothing.
EntriesOf(emitted) ==
    {TraceEntry(emitted[n]) : n \in {m \in 1..Len(emitted) : Len(emitted[m]) >= 3
                                                          /\ IsDict(emitted[m][2])}}
OwnTrace(ts) ==
    /\ Len(ts) <= Len(history)
    /\ \A k \in 1..Len(ts) :
         /\ \A n \in 1..Len(ts[k]) : ts[k][n] \in EntriesOf(history[k].emitted)
         /\ history[k].emitted = <<>> => ts[k] = <<>>
C14_TraceIsolation ==
    /\ OwnTrace(traces)
    /\ \A r \in Reports : Len(r.traces) = N /\ OwnTrace(r.traces)
C14_Witness ==
    /\ pc = "done" /\ N = 2 /\ Len(history) = 2
    /\ history[1].emitted # <<>> /\ history[1].fault = "none"
    /\ history[2].emitted = <<>> /\ history[2].fault = "none"
    /\ \E r \in Emitted : IsReport(r) /\ r.traces[1] # <<>> /\ r.traces[2] = <<>>

\* C15: a scope is open exactly while one example is between the call of the
\* program and the end of its with block; the accumulator is empty when the
\* program is called; no scope is open when the for statement takes the next
\* example, when the aggregator runs or when the process ends.
C15_ScopeProtocol ==
    /\ scope_open <= 1
    /\ pc \in {"call", "score", "append", "format"} <=> scope_open = 1
    /\ pc = "call" => settings_trace = <<>>
    /\ pc \in {"for", "example", "enter", "return", "print", "done"} =>
           scope_open = 0 /\ settings_trace = <<>>
C15_Witness ==
    /\ pc = "for" /\ i = 2 /\ scope_open = 0
    /\ history[1].fault = "format" /\ history[2].fault = "metric"

\* C16: the metric is called at most once per example, only after that
\* example's call of the program returned, never for an example whose input
\* construction or call raised; and an example that went through the handler
\* has contributed no success result.
SuccessResults == {k \in 1..Len(results) : ~HasError(results[k])}
NotFailed == {k \in 1..Len(history) : history[k].fault = "none"}
C16_ExampleStateMachine ==
    /\ \A k \in 1..Len(history) :
         /\ history[k].called <= 1 /\ history[k].scored <= 1
         /\ history[k].scored = 1 =>
                history[k].called = 1 /\ history[k].fault \notin {"example", "call"}
    /\ Cardinality(SuccessResults) <= Cardinality(NotFailed)

\* C17 as stated: whenever execute_dspy_program has returned, the program
\* source was executed exactly once and the language model was attached
\* exactly once.
C17_ExactlyOnce ==
    result # NoResult => exec_count.program = 1 /\ lm_attached = 1

\* C17 as amended: the program source and the metric source are executed at
\* most once each and the language model is attached at most once; it is
\* attached only to a program that passed both checks; the metric source is
\* executed only after that; and once an example is taken by the loop the
\* program source was executed once, the language model attached once and
\* the metric source executed once if the request carries one.
C17_LoadOrdering ==
    /\ exec_count.program <= 1 /\ exec_count.metric <= 1 /\ lm_attached <= 1
    /\ exec_count.program = 1 => lm
    /\ lm_attached = 1 => exec_count.program = 1 /\ program = "Module"
    /\ exec_count.metric = 1 => lm_attached = 1
    /\ Loaded => /\ exec_count.program = 1 /\ lm_attached = 1
                 /\ exec_count.metric = 1 <=> input_data.metricFnCode # "absent"
    /\ (history # <<>> \/ aggregated) => Loaded
    /\ \A k \in 1..Len(history) : history[k].called = 1 => lm_attached = 1
C17_Witness ==
    /\ pc = "done" /\ Loaded /\ exec_count = [program |-> 1, metric |-> 1]
    /\ lm_attached = 1 /\ Len(history) = 2
    /\ history[1].called = 1 /\ history[2].called = 1
    /\ Len(stdout) = 1

\* C18: the trace stored for an example that did not raise holds, in order,
\* one entry {module, inputs, outputs} for each accumulated record of at
\* least three components and none for a shorter record; a record without
\* output gets the empty mapping as outputs; the trace is never longer than
\* the accumulated records.
Retained(emitted) == {m \in 1..Len(emitted) : Len(emitted[m]) >= 3}
NormalizedTrace(ts, k) ==
    LET emitted == history[k].emitted
        v == GetInputs(input_data.examples[k]).x
        entry == [module |-> Str("Predict"), inputs |-> [x |-> Str(v)],
                  outputs |-> [y |-> Str(v)]]
    IN /\ Len(ts[k]) = Cardinality(Retained(emitted))
       /\ Len(ts[k]) <= Len(emitted)
       /\ \A n \in 1..Len(ts[k]) : DOMAIN ts[k][n] = {"module", "inputs", "outputs"}
       /\ emitted = <<ShortRecord, FullRecord([x |-> v])>> => ts[k] = <<entry>>
       /\ emitted = <<NoOutputRecord([x |-> v])>> =>
              ts[k] = <<[entry EXCEPT !.outputs = EmptyDict]>>
C19_Passed ==
    pc \in {"enter", "call", "score", "append", "format"} =>
        LET ex == input_data.examples[i] IN
        /\ \A v \in Payloads :
             /\ ex = Wrapped(v) => dspy_example.store = [x |-> v]
             /\ ex = Flat(v) => dspy_example.store = ex
        /\ \A n \in 1..Len(history[i].emitted) :
             LET t == history[i].emitted[n] IN
             (Len(t) >= 3 /\ IsDict(t[2])) =>
                 t[2] = IF "inputs" \in DOMAIN ex THEN ex.inputs ELSE ex
C19_InputSelection ==
    /\ []C19_Passed
    /\ [][pc # "read" => input_data' = input_data]_vars
C19_Witness ==
    /\ pc = "done" /\ Len(history) = 2
    /\ input_data.examples = <<Wrapped(1), Flat(2)>>
    /\ history[1].emitted = <<ShortRecord, FullRecord([x |-> 1])>>
    /\ history[2].emitted = <<ShortRecord, FullRecord([x |-> 2])>>
    /\ \E r \in Emitted : IsReport(r) /\ r.results[1].outputs = [y |-> 1]
                                      /\ r.results[2].outputs = [y |-> 2]
====
